---- MODULE Spec2Model ----
(***************************************************************************)
(* A model of the research pipeline of lang-test: ResearchAgent (the five  *)
(* LangGraph nodes generateQueries, search, filter, summarize, save),      *)
(* SearchAgentTool (the per-instance search cache), SearchAgent.search,    *)
(* SearxNGSearchTool.getStructuredResults (the retry loop), VectorSearch   *)
(* (the namespace-scoped store) and MongoDBStorageTool._call.              *)
(*                                                                         *)
(* Strings the code inspects character by character (topics, queries,      *)
(* urls, ids) are sequences of one-character strings.  An LLM reply is a   *)
(* sequence of tokens.  Numbers the code computes with (similarity scores, *)
(* relevance) are fixed-point integers in units of 1/Unit.                 *)
(***************************************************************************)
EXTENDS Integers, Sequences, FiniteSets, TLC

\* ------------------------------------------------------------------ bounds

\* research() is called at most MaxRuns times on one ResearchAgent instance.
MaxRuns == 2

\* The "queries" array of an LLM reply has at most MaxReplyLen entries.
MaxReplyLen == 6

\* The similarity scores given to the relevance mapping on its own run from
\* -ScoreSpan to ScoreSpan hundredths.
ScoreSpan == 150

\* The groups given to the collection of the sources on its own hold at most
\* MaxItems items.
MaxItems == 17
MaxRaw == 7

\* ------------------------------------------------------- program constants

\* SearchQueriesSchema: z.array(z.string()).min(3).max(5)
MinQueries == 3
MaxQueries == 5

\* getStructuredResults with one more turn of its loop
MaxRetries_OneMore == 3 + 1

\* getStructuredResults: maxRetries
MaxRetries == 3

\* getStructuredResults: retryDelay, maxResults
RetryDelay == 3000
MaxResults == 5

\* searchNode: the delay between two searches
SearchDelay == 2000

\* filterNode: the limit of the similarity search
SearchLimit == 20

\* summarizeNode: slice(0, 15)
MaxSources == 15

\* Fixed point: the number 1 is Unit, so 0.73 is 73 and 10 is 10 * Unit.
Unit == 10 * 10

\* filterNode: Math.min(10, score * 10), and the default 5
RelevanceCap == 10
RelevanceFactor == 10
DefaultRelevance == 5

\* ----------------------------------------------------------------- strings

Whitespace == {" "}

Lower(c) ==
    CASE c = "X" -> "x"
      [] c = "Y" -> "y"
      [] OTHER -> c

RECURSIVE TrimLeft(_)
TrimLeft(s) ==
    IF s # <<>> /\ Head(s) \in Whitespace THEN TrimLeft(Tail(s)) ELSE s

RECURSIVE TrimRight(_)
TrimRight(s) ==
    IF s # <<>> /\ s[Len(s)] \in Whitespace
    THEN TrimRight(SubSeq(s, 1, Len(s) - 1))
    ELSE s

\* String.prototype.trim
Trim(s) == TrimRight(TrimLeft(s))

\* topic.replaceAll(/\s+/g, "-"): every maximal run of whitespace becomes "-"
RECURSIVE ReplaceWhitespace(_)
ReplaceWhitespace(s) ==
    IF s = <<>> THEN <<>>
    ELSE IF Head(s) \in Whitespace
         THEN <<"-">> \o ReplaceWhitespace(TrimLeft(s))
         ELSE <<Head(s)>> \o ReplaceWhitespace(Tail(s))

ToLowerCase(s) == [k \in 1..Len(s) |-> Lower(s[k])]

\* filterNode: ["research", topic.replaceAll(/\s+/g, "-").toLowerCase()]
Namespace(t) == <<"research", ToLowerCase(ReplaceWhitespace(t))>>

\* Number.prototype.toString of an array index
Digits == <<"0", "1", "2", "3", "4", "5", "6", "7", "8", "9">>

IndexStr(n) == <<Digits[n + 1]>>

\* filterNode: `${result.query}-${index}-${r.url}`, index counted from 0
MakeId(query, index, url) == query \o <<"-">> \o IndexStr(index) \o <<"-">> \o url

Min(a, b) == IF a < b THEN a ELSE b

\* All sequences over S of length lo..hi
SeqsOf(S, lo, hi) == UNION {[1..n -> S] : n \in lo..hi}

\* ------------------------------------------------------------ LLM replies

(***************************************************************************)
(* The text of an LLM reply is a sequence of characters in which "Q"       *)
(* stands for the member "queries": [...] (its array is the reply's        *)
(* queries field), "O" for any other member, "t" for a character of prose, *)
(* and "{", "}", " " for themselves.                                       *)
(***************************************************************************)
QueryStrings == {<<"a">>, <<" ">>}

QueryArrays == SeqsOf(QueryStrings, 0, MaxReplyLen)

ReplyTexts ==
    { pre \o mid \o post :
        pre \in {<<>>, <<"t", " ">>},
        mid \in {<<"{", "Q", "}">>, <<"{", "O", "}">>, <<"{", "Q">>, <<"t">>},
        post \in {<<>>, <<" ", "t">>} }

RemoveWhitespace(s) == SelectSeq(s, LAMBDA c : c \notin Whitespace)

\* String.prototype.indexOf / lastIndexOf, positions counted from 1, 0 for -1
IndexOf(s, c) ==
    IF \E k \in 1..Len(s) : s[k] = c
    THEN CHOOSE k \in 1..Len(s) : s[k] = c /\ \A j \in 1..(k - 1) : s[j] # c
    ELSE 0

LastIndexOf(s, c) ==
    IF \E k \in 1..Len(s) : s[k] = c
    THEN CHOOSE k \in 1..Len(s) : s[k] = c /\ \A j \in (k + 1)..Len(s) : s[j] # c
    ELSE 0

\* JSON.parse: the text is one object, "{" member "}" or "{" "}"
JsonParse(jsonText) ==
    LET t == RemoveWhitespace(jsonText) IN
    CASE t = <<"{", "Q", "}">> -> "queries"
      [] t = <<"{", "O", "}">> -> "other"
      [] t = <<"{", "}">> -> "other"
      [] OTHER -> "SyntaxError"

\* SearchQueriesSchema.parse: an object whose queries is an array of 3 to 5 strings
SearchQueriesSchema(kind, queries) ==
    /\ kind = "queries"
    /\ Len(queries) >= MinQueries
    /\ Len(queries) <= MaxQueries

\* extractJsonFromLLMResponse(responseText, SearchQueriesSchema)
extractJsonFromLLMResponse(responseText, queries) ==
    LET trimmed == Trim(responseText)
        startsWithBrace == trimmed # <<>> /\ Head(trimmed) = "{"
        firstBrace == IndexOf(trimmed, "{")
        lastBrace == LastIndexOf(trimmed, "}")
        noObject == firstBrace = 0 \/ lastBrace = 0 \/ lastBrace <= firstBrace
        jsonText == IF startsWithBrace THEN trimmed
                    ELSE SubSeq(trimmed, firstBrace, lastBrace)
        kind == JsonParse(jsonText)
    IN  IF ~startsWithBrace /\ noObject
        THEN [status |-> "NoJsonObject", queries |-> <<>>]
        ELSE IF kind = "SyntaxError"
        THEN [status |-> "ParseError", queries |-> <<>>]
        ELSE IF ~SearchQueriesSchema(kind, queries)
        THEN [status |-> "ValidationError", queries |-> <<>>]
        ELSE [status |-> "ok", queries |-> queries]

\* ------------------------------------------------------- search collaborators

Topics == {<<"X", " ", "Y">>, <<"x", "-", "y">>}

\* What the search engine holds: SearxNGResult {title, url, content}
RawItems ==
    { [title |-> "T1", url |-> <<"u">>, content |-> "c"],
      [title |-> "T2", url |-> <<"u">>, content |-> ""] }

RawResponses == SeqsOf(RawItems, 0, 1)

\* One axios.get: it throws, or response.data.results is missing, or is an array
EngineReplies ==
    { [kind |-> "error", results |-> <<>>], [kind |-> "missing", results |-> <<>>] }
    \cup { [kind |-> "ok", results |-> rs] : rs \in RawResponses }

\* The content of the LLM's answer in SearchAgent.search; ChatOllama answers with
\* a string
SearchAnswers == { [isString |-> TRUE, text |-> "s"] }

\* SearchAgent.search: typeof lastMessage?.content === "string" ? ... : "No response generated"
SummaryOf(answer) == IF answer.isString THEN answer.text ELSE "No response generated"

\* getStructuredResults without its slice(0, maxResults)
ToStructured_NoSlice(results, maxResults) ==
    [k \in 1..Len(results) |->
        [title |-> results[k].title,
         url |-> results[k].url,
         snippet |-> IF results[k].content = "" THEN "No description available"
                     ELSE results[k].content]]

\* getStructuredResults: results.slice(0, maxResults).map(...)
ToStructured(results, maxResults) ==
    [k \in 1..Min(Len(results), maxResults) |->
        [title |-> results[k].title,
         url |-> results[k].url,
         snippet |-> IF results[k].content = "" THEN "No description available"
                     ELSE results[k].content]]

\* A SearchResult {query, results, summary, timestamp}, the time counted in
\* research() calls; Undefined is the value undefined
SearchResult(query, results, summary, timestamp) ==
    [defined |-> TRUE, query |-> query, results |-> results, summary |-> summary,
     timestamp |-> timestamp]

Undefined ==
    [defined |-> FALSE, query |-> <<>>, results |-> <<>>, summary |-> "", timestamp |-> 0]

\* this.searchCache: Map<string, SearchResult>, a set with one entry per key
CacheHas(cache, query) == \E r \in cache : r.query = query

CacheGet(cache, query) ==
    IF CacheHas(cache, query) THEN CHOOSE r \in cache : r.query = query
    ELSE Undefined

\* A set that keeps a SearchResult only when it has results
CacheSet_SkipEmpty(cache, query, result) ==
    IF result.results = <<>> THEN cache
    ELSE {r \in cache : r.query # query} \cup {result}

\* A set that drops the entries of the other keys
CacheSet_Single(cache, query, result) == {result}

\* Map.prototype.set: the entry of the key is replaced or added
CacheSet(cache, query, result) == {r \in cache : r.query # query} \cup {result}

\* What SearchAgent.search does in _call: it returns a SearchResult or throws
Returned(result) == [threw |-> FALSE, result |-> result]

Thrown == [threw |-> TRUE, result |-> Undefined]

\* SearchAgentTool._call after a cache miss: the result is set, or the catch
\* swallows the error and leaves the cache as it is
CacheAfterCall(cache, query, outcome) ==
    IF outcome.threw THEN cache ELSE CacheSet(cache, query, outcome.result)

\* ------------------------------------------------------------------- state

VARIABLES
    pc,               \* where research() is: idle, a node, done, error
    error,            \* the error research() threw, "" when none
    runs,             \* the research() calls made on the instance
    topic,            \* ResearchState.topic
    generatedQueries, \* ResearchState.generatedQueries
    searchResults,    \* ResearchState.searchResults
    filteredResults,  \* ResearchState.filteredResults
    summary,          \* ResearchState.summary
    sources,          \* ResearchState.sources
    spc,              \* searchNode: where the for loop is
    pos,              \* searchNode: the position of the query of the loop, from 1
    attempt,          \* getStructuredResults: attempt
    rawResults,       \* SearchAgent.search: rawResults
    searchCache,      \* SearchAgentTool.searchCache
    store,            \* VectorSearch.store: entries {namespace, key, value}
    indexed,          \* filterNode: contentItems, once addBatch has returned
    stagesRun,        \* the nodes invoked by this run, in order
    failedIn,         \* the node in which a collaborator call first failed, or "none"
    attempts,         \* the axios.get calls of the getStructuredResults call
    failures,         \* those of them that threw or brought no results
    retrySlept,       \* the milliseconds the getStructuredResults call slept
    exhausted,        \* the positions whose getStructuredResults call used up its attempts
    delays,           \* the positions after which searchNode slept 2000 ms
    called,           \* the positions at which SearchAgent.search was called in this run
    lateCalls,        \* the positions at which it was called for a cached query
    inserted,         \* the documents insertOne stored during this run
    dbWriteFailed,    \* whether the database write of this run threw
    savedLogged,      \* whether saveNode logged "Research saved to MongoDB!"
    fpc,              \* a function applied on its own: "off", "ready", "applied"
    fin,              \* its arguments
    fout              \* its result

runVars == <<topic, generatedQueries, searchResults, filteredResults, summary, sources>>
loopVars == <<spc, pos, attempt, rawResults>>
fetchGhost == <<attempts, failures, retrySlept>>
cacheGhost == <<called, lateCalls>>
saveGhost == <<inserted, dbWriteFailed, savedLogged>>

funVars == <<fpc, fin, fout>>

\* The state of a ResearchAgent and of the run it is in
agentVars == <<pc, error, runs, runVars, loopVars, searchCache, store, indexed, stagesRun,
               failedIn, fetchGhost, exhausted, delays, cacheGhost, saveGhost>>

vars == <<agentVars, funVars>>

Stages == <<"generateQueries", "search", "filter", "summarize", "save">>

\* A ResearchAgent after its constructor
Constructed ==
    /\ pc = "idle"
    /\ error = ""
    /\ runs = 0
    /\ topic = <<>>
    /\ generatedQueries = <<>>
    /\ searchResults = <<>>
    /\ filteredResults = <<>>
    /\ summary = ""
    /\ sources = <<>>
    /\ spc = "loop"
    /\ pos = 1
    /\ attempt = 1
    /\ rawResults = <<>>
    /\ searchCache = {}
    /\ store = {}
    /\ indexed = <<>>
    /\ stagesRun = <<>>
    /\ failedIn = "none"
    /\ attempts = 0
    /\ failures = 0
    /\ retrySlept = 0
    /\ exhausted = {}
    /\ delays = {}
    /\ called = {}
    /\ lateCalls = {}
    /\ inserted = <<>>
    /\ dbWriteFailed = FALSE
    /\ savedLogged = FALSE

\* No function is applied on its own
NoValue == [kind |-> "none"]

Init ==
    /\ Constructed
    /\ fpc = "off"
    /\ fin = NoValue
    /\ fout = NoValue

\* ------------------------------------------------------------- research()

\* buildGraph with the edge search -> filter replaced by search -> summarize
NextNode_SkipFilter(node) ==
    CASE node = "start" -> "generateQueries"
      [] node = "generateQueries" -> "search"
      [] node = "search" -> "summarize"
      [] node = "filter" -> "summarize"
      [] node = "summarize" -> "save"
      [] node = "save" -> "done"

\* The edges of buildGraph: the node that follows a node, "done" for END
NextNode(node) ==
    CASE node = "start" -> "generateQueries"
      [] node = "generateQueries" -> "search"
      [] node = "search" -> "filter"
      [] node = "filter" -> "summarize"
      [] node = "summarize" -> "save"
      [] node = "save" -> "done"

\* A node throws: graph.invoke rejects, and so does research()
Throw(node, err) ==
    /\ pc' = "error"
    /\ error' = err

\* research(topic): graph.invoke with the initial state
Research ==
    /\ pc \in {"idle", "done", "error"}
    /\ runs < MaxRuns
    /\ \E t \in Topics : topic' = t
    /\ runs' = runs + 1
    /\ pc' = NextNode("start")
    /\ error' = ""
    /\ generatedQueries' = <<>>
    /\ searchResults' = <<>>
    /\ filteredResults' = <<>>
    /\ summary' = ""
    /\ sources' = <<>>
    /\ spc' = "loop"
    /\ pos' = 1
    /\ attempt' = 1
    /\ rawResults' = <<>>
    /\ indexed' = <<>>
    /\ stagesRun' = <<>>
    /\ failedIn' = "none"
    /\ attempts' = 0
    /\ failures' = 0
    /\ retrySlept' = 0
    /\ exhausted' = {}
    /\ delays' = {}
    /\ inserted' = <<>>
    /\ dbWriteFailed' = FALSE
    /\ savedLogged' = FALSE
    /\ called' = {}
    /\ lateCalls' = {}
    /\ UNCHANGED <<searchCache, store>>
    /\ UNCHANGED funVars

\* generateQueriesNode: llm.invoke, then extractJsonFromLLMResponse
GenerateQueries ==
    /\ pc = "generateQueries"
    /\ stagesRun' = Append(stagesRun, "generateQueries")
    /\ \/ /\ Throw("generateQueries", "LLMError")
          /\ failedIn' = "generateQueries"
          /\ UNCHANGED generatedQueries
       \/ \E text \in ReplyTexts, queries \in QueryArrays :
            LET parsed == extractJsonFromLLMResponse(text, queries) IN
            /\ failedIn' = failedIn
            /\ IF parsed.status = "ok"
               THEN /\ generatedQueries' = parsed.queries
                    /\ pc' = NextNode("generateQueries")
                    /\ error' = error
               ELSE /\ Throw("generateQueries", "Failed to generate valid search queries")
                    /\ UNCHANGED generatedQueries
    /\ UNCHANGED <<runs, topic, searchResults, filteredResults, summary, sources,
                   loopVars, searchCache, store, indexed, fetchGhost, exhausted,
                   delays, cacheGhost, saveGhost>>
    /\ UNCHANGED funVars

\* ------------------------------------------------------------- searchNode

\* SearchAgentTool._call without its cache lookup
UseCache_Never(cache, query) == FALSE

\* SearchAgentTool._call: if (this.searchCache.has(query))
UseCache(cache, query) == CacheHas(cache, query)

\* getStructuredResults with the test attempt <= maxRetries
ShouldRetry_Inclusive(n) == n <= MaxRetries

\* getStructuredResults: if (attempt < maxRetries) sleep and go round again
ShouldRetry(n) == n < MaxRetries

\* getStructuredResults handing back a placeholder item when it gives up
GiveUpResults_Placeholder == <<[url |-> <<"u">>, title |-> "T1", snippet |-> "c"]>>

\* getStructuredResults: return [] once the attempts are used up
GiveUpResults == <<>>

\* getStructuredResults: the result set of a reply is empty or missing
NoResults(reply) == reply.kind = "missing" \/ reply.results = <<>>

\* The query of the loop
Query == generatedQueries[pos]

\* The head of a loop that starts the call of the next query with the call of
\* this one, without awaiting it
SearchLoop_FanOut ==
    /\ pc = "search"
    /\ spc = "loop"
    /\ stagesRun' = IF pos = 1 THEN Append(stagesRun, "search") ELSE stagesRun
    /\ \/ /\ pos > Len(generatedQueries)
          /\ pc' = NextNode("search")
          /\ UNCHANGED <<searchResults, spc, attempt, cacheGhost>>
       \/ /\ pos <= Len(generatedQueries)
          /\ UseCache(searchCache, Query)
          /\ searchResults' = Append(searchResults, CacheGet(searchCache, Query))
          /\ spc' = "delay"
          /\ UNCHANGED <<pc, attempt, called, lateCalls>>
       \/ /\ pos <= Len(generatedQueries)
          /\ ~UseCache(searchCache, Query)
          /\ called' = called \cup {p \in {pos, pos + 1} : p <= Len(generatedQueries)}
          /\ lateCalls' = IF CacheHas(searchCache, Query)
                          THEN lateCalls \cup {pos} ELSE lateCalls
          /\ spc' = "fetch"
          /\ attempt' = 1
          /\ UNCHANGED <<pc, searchResults>>
    /\ UNCHANGED <<error, runs, topic, generatedQueries, filteredResults, summary,
                   sources, pos, rawResults, searchCache, store, indexed, failedIn,
                   fetchGhost, exhausted, delays, saveGhost>>
    /\ UNCHANGED funVars

\* searchNode, the head of the for loop: the loop ends, or getStructuredResult(query)
\* runs _call up to the cache lookup (a hit returns the cached SearchResult)
SearchLoop ==
    /\ pc = "search"
    /\ spc = "loop"
    /\ stagesRun' = IF pos = 1 THEN Append(stagesRun, "search") ELSE stagesRun
    /\ \/ /\ pos > Len(generatedQueries)
          /\ pc' = NextNode("search")
          /\ UNCHANGED <<searchResults, spc, attempt, cacheGhost>>
       \/ /\ pos <= Len(generatedQueries)
          /\ UseCache(searchCache, Query)
          /\ searchResults' = Append(searchResults, CacheGet(searchCache, Query))
          /\ spc' = "delay"
          /\ UNCHANGED <<pc, attempt, called, lateCalls>>
       \/ /\ pos <= Len(generatedQueries)
          /\ ~UseCache(searchCache, Query)
          /\ called' = called \cup {pos}
          /\ lateCalls' = IF CacheHas(searchCache, Query)
                          THEN lateCalls \cup {pos} ELSE lateCalls
          /\ spc' = "fetch"
          /\ attempt' = 1
          /\ UNCHANGED <<pc, searchResults>>
    /\ UNCHANGED <<error, runs, topic, generatedQueries, filteredResults, summary,
                   sources, pos, rawResults, searchCache, store, indexed, failedIn,
                   fetchGhost, exhausted, delays, saveGhost>>
    /\ UNCHANGED funVars

\* getStructuredResults, one turn of the loop on the reply of axios.get: the
\* return of the mapped results, or the sleep, or the return of []
Fetch(reply) ==
    LET failed == reply.kind = "error" \/ NoResults(reply) IN
    /\ attempts' = attempts + 1
    /\ failures' = IF failed THEN failures + 1 ELSE failures
    /\ IF ~failed
       THEN /\ rawResults' = ToStructured(reply.results, MaxResults)
            /\ spc' = "graph"
            /\ UNCHANGED exhausted
       ELSE IF ShouldRetry(attempt)
       THEN /\ spc' = "retrySleep"
            /\ UNCHANGED <<rawResults, exhausted>>
       ELSE /\ rawResults' = GiveUpResults
            /\ spc' = "graph"
            /\ exhausted' = exhausted \cup {pos}
    /\ UNCHANGED <<pc, error, runs, runVars, pos, attempt, searchCache, store, indexed,
                   stagesRun, failedIn, retrySlept, delays, cacheGhost, saveGhost>>

\* getStructuredResults, one turn of the loop: axios.get and what follows it,
\* up to the return or the sleep
FetchAttempt ==
    /\ pc = "search"
    /\ spc = "fetch"
    /\ \E reply \in EngineReplies : Fetch(reply)
    /\ UNCHANGED funVars

\* getStructuredResults: setTimeout(resolve, retryDelay), then attempt++ and the
\* loop's test; past maxRetries the function returns [] (its last line)
RetrySleep ==
    /\ pc = "search"
    /\ spc = "retrySleep"
    /\ retrySlept' = retrySlept + RetryDelay
    /\ attempt' = attempt + 1
    /\ IF attempt + 1 <= MaxRetries
       THEN /\ spc' = "fetch"
            /\ UNCHANGED <<rawResults, exhausted>>
       ELSE /\ spc' = "graph"
            /\ rawResults' = GiveUpResults
            /\ exhausted' = exhausted \cup {pos}
    /\ UNCHANGED <<pc, error, runs, runVars, pos, searchCache, store, indexed,
                   stagesRun, failedIn, attempts, failures, delays, cacheGhost,
                   saveGhost>>
    /\ UNCHANGED funVars

\* SearchAgent.search after getStructuredResults: graph.invoke (the formatted
\* search of SearxNGSearchTool._call, which never throws, then llm.invoke), the
\* SearchResult; back in SearchAgentTool._call the cache is set, or the catch
\* swallows the error; getStructuredResult returns this.searchCache.get(query)
SearchGraph ==
    /\ pc = "search"
    /\ spc = "graph"
    /\ \/ \E answer \in SearchAnswers :
            LET result == SearchResult(Query, rawResults, SummaryOf(answer), runs)
            IN  /\ searchCache' = CacheAfterCall(searchCache, Query, Returned(result))
                /\ failedIn' = failedIn
       \/ /\ searchCache' = CacheAfterCall(searchCache, Query, Thrown)
          /\ failedIn' = IF failedIn = "none" THEN "search" ELSE failedIn
    /\ searchResults' = Append(searchResults, CacheGet(searchCache', Query))
    /\ spc' = "delay"
    /\ attempt' = 1
    /\ rawResults' = <<>>
    /\ attempts' = 0
    /\ failures' = 0
    /\ retrySlept' = 0
    /\ UNCHANGED <<pc, error, runs, topic, generatedQueries, filteredResults, summary,
                   sources, pos, store, indexed, stagesRun, exhausted, delays,
                   cacheGhost, saveGhost>>
    /\ UNCHANGED funVars

\* searchNode: if (query !== state.generatedQueries.at(-1)) sleep 2000 ms
SleepsAfter(queries, k) == queries[k] # queries[Len(queries)]

\* searchNode, the end of the loop body: the delay, then the next query
SearchDelayStep ==
    /\ pc = "search"
    /\ spc = "delay"
    /\ delays' = IF SleepsAfter(generatedQueries, pos) THEN delays \cup {pos} ELSE delays
    /\ pos' = pos + 1
    /\ spc' = "loop"
    /\ UNCHANGED <<pc, error, runs, runVars, attempt, rawResults, searchCache, store,
                   indexed, stagesRun, failedIn, fetchGhost, exhausted, cacheGhost,
                   saveGhost>>
    /\ UNCHANGED funVars

\* ------------------------------------------------------------- filterNode

\* A similarity score of the index: <<>> when the match carries none
Scores == {<<>>, <<0 - 50>>, <<73>>, <<140>>}

\* contentItems: one item per raw result, in flatMap order
RECURSIVE ContentItems(_)
ContentItems(results) ==
    IF results = <<>> THEN <<>>
    ELSE LET result == Head(results) IN
         [k \in 1..Len(result.results) |->
            [id |-> MakeId(result.query, k - 1, result.results[k].url),
             value |-> [text |-> <<result.results[k].title, result.results[k].snippet,
                                   result.query>>,
                        title |-> result.results[k].title,
                        url |-> result.results[k].url,
                        snippet |-> result.results[k].snippet,
                        query |-> result.query,
                        summary |-> result.summary]]]
         \o ContentItems(Tail(results))

\* VectorSearch.addContent: store.put(namespace, id, {text, ...metadata})
Put(st, namespace, item) ==
    {e \in st : ~(e.ns = namespace /\ e.key = item.id)}
    \cup {[ns |-> namespace, key |-> item.id, value |-> item.value]}

\* A batch that resolves when its first write has completed
AddBatch_FirstOnly(st, namespace, items) ==
    IF items = <<>> THEN st ELSE Put(st, namespace, Head(items))

\* VectorSearch.addBatch: every item put, one after the other
RECURSIVE AddBatch(_, _, _)
AddBatch(st, namespace, items) ==
    IF items = <<>> THEN st
    ELSE CHOOSE out \in {AddBatch(next, namespace, Tail(items)) :
                            next \in {Put(st, namespace, Head(items))}} : TRUE

\* VectorSearch.clearNamespace: a no-op
ClearNamespace(st) == st

\* The subsequence of items at the positions in keep
RECURSIVE Pick(_, _, _)
Pick(items, keep, k) ==
    IF k > Len(items) THEN <<>>
    ELSE (IF k \in keep THEN <<items[k]>> ELSE <<>>) \o Pick(items, keep, k + 1)

\* The order of the index: a higher score first, no score last
ScoreKey(score) == IF score = <<>> THEN 0 - 1000 * Unit ELSE score[1]

\* A search over the entries of every namespace
Matches_AnyNamespace(st, namespace, limit) ==
    LET n == Min(limit, Cardinality(st))
        hits == {f \in [1..n -> st] : \A j, k \in 1..n : j < k => f[j] # f[k]}
    IN  { [k \in 1..n |-> [key |-> f[k].key, value |-> f[k].value, score |-> <<>>]] :
            f \in hits }

\* VectorSearch.search(namespace, query, undefined, limit): up to limit entries of
\* the namespace, each once, by descending score
Matches(st, namespace, limit) ==
    LET entries == {e \in st : e.ns = namespace}
        n == Min(limit, Cardinality(entries))
        hits == {f \in [1..n -> entries] : \A j, k \in 1..n : j < k => f[j] # f[k]}
        ranked == {sc \in [1..n -> Scores] :
                     \A k \in 1..(n - 1) : ScoreKey(sc[k]) >= ScoreKey(sc[k + 1])}
    IN  { [k \in 1..n |-> [key |-> f[k].key, value |-> f[k].value, score |-> sc[k]]] :
            f \in hits, sc \in ranked }

\* filterNode: result.score ? Math.min(10, result.score * 10) : 5
RelevanceScore(score) ==
    IF score # <<>> /\ score[1] # 0
    THEN Min(RelevanceCap * Unit, score[1] * RelevanceFactor)
    ELSE DefaultRelevance * Unit

\* state.searchResults.find((r) => r.query === query): its position, 0 when none
FindResult(results, query) ==
    IF \E k \in 1..Len(results) : results[k].query = query
    THEN CHOOSE k \in 1..Len(results) :
            /\ results[k].query = query
            /\ \A j \in 1..(k - 1) : results[j].query # query
    ELSE 0

\* A lookup that finds the first group whatever its query
GroupIndex_First(groups, query) == IF groups # <<>> THEN 1 ELSE 0

\* resultsByQuery.get(query): the position of the group of the query, 0 when none
GroupIndex(groups, query) ==
    IF \E k \in 1..Len(groups) : groups[k].query = query
    THEN CHOOSE k \in 1..Len(groups) : groups[k].query = query
    ELSE 0

\* The body of the loop with a group that keeps the results of the original
\* SearchResult
AddMatch_KeepResults(groups, results, match) ==
    LET query == match.value.query
        original == FindResult(results, query)
        kept == [k \in 1..Len(results[original].results) |->
                   [title |-> results[original].results[k].title,
                    url |-> results[original].results[k].url,
                    snippet |-> results[original].results[k].snippet,
                    relevanceScore |-> DefaultRelevance * Unit]]
        seeded == IF GroupIndex(groups, query) = 0 /\ original # 0
                  THEN Append(groups, [results[original] EXCEPT !.results = kept])
                  ELSE groups
        g == GroupIndex(seeded, query)
    IN  IF g = 0 THEN seeded
        ELSE [seeded EXCEPT ![g].results =
                Append(@, [title |-> match.value.title,
                           url |-> match.value.url,
                           snippet |-> match.value.snippet,
                           relevanceScore |-> RelevanceScore(match.score)])]

\* The body of the loop with a group made anew, without the spread of the
\* original SearchResult
AddMatch_Anew(groups, results, match) ==
    LET query == match.value.query
        original == FindResult(results, query)
        seeded == IF GroupIndex(groups, query) = 0 /\ original # 0
                  THEN Append(groups, SearchResult(query, <<>>, "", 0))
                  ELSE groups
        g == GroupIndex(seeded, query)
    IN  IF g = 0 THEN seeded
        ELSE [seeded EXCEPT ![g].results =
                Append(@, [title |-> match.value.title,
                           url |-> match.value.url,
                           snippet |-> match.value.snippet,
                           relevanceScore |-> RelevanceScore(match.score)])]

\* The body of the loop without its test of originalResult: a match whose query
\* has no SearchResult gets a group of its own
AddMatch_Unguarded(groups, results, match) ==
    LET query == match.value.query
        original == FindResult(results, query)
        seeded == IF GroupIndex(groups, query) # 0 THEN groups
                  ELSE IF original # 0
                  THEN Append(groups, [results[original] EXCEPT !.results = <<>>])
                  ELSE Append(groups, SearchResult(query, <<>>, "", 0))
        g == GroupIndex(seeded, query)
    IN  IF g = 0 THEN seeded
        ELSE [seeded EXCEPT ![g].results =
                Append(@, [title |-> match.value.title,
                           url |-> match.value.url,
                           snippet |-> match.value.snippet,
                           relevanceScore |-> RelevanceScore(match.score)])]

\* filterNode, the body of the loop over the matches: the group of the match's
\* query is created from the original SearchResult, then the match is pushed
AddMatch(groups, results, match) ==
    LET query == match.value.query
        original == FindResult(results, query)
        seeded == IF GroupIndex(groups, query) = 0 /\ original # 0
                  THEN Append(groups, [results[original] EXCEPT !.results = <<>>])
                  ELSE groups
        g == GroupIndex(seeded, query)
    IN  IF g = 0 THEN seeded
        ELSE [seeded EXCEPT ![g].results =
                Append(@, [title |-> match.value.title,
                           url |-> match.value.url,
                           snippet |-> match.value.snippet,
                           relevanceScore |-> RelevanceScore(match.score)])]

\* filterNode: [...resultsByQuery.values()] after the loop over the matches; the
\* groups after one match are a value before the next match is taken
RECURSIVE GroupByQuery(_, _, _)
GroupByQuery(groups, results, matches) ==
    IF matches = <<>> THEN groups
    ELSE CHOOSE out \in {GroupByQuery(next, results, Tail(matches)) :
                            next \in {AddMatch(groups, results, Head(matches))}} : TRUE

\* filterNode up to the return of addBatch: the TypeError of result.results on an
\* undefined SearchResult, or the batch is stored, or a put rejects
FilterIndex ==
    /\ pc = "filter"
    /\ stagesRun' = Append(stagesRun, "filter")
    /\ \/ /\ \E k \in 1..Len(searchResults) : ~searchResults[k].defined
          /\ Throw("filter", "TypeError")
          /\ UNCHANGED <<store, indexed, failedIn>>
       \/ /\ \A k \in 1..Len(searchResults) : searchResults[k].defined
          /\ store' = AddBatch(store, Namespace(topic), ContentItems(searchResults))
          /\ indexed' = ContentItems(searchResults)
          /\ pc' = "filterSearch"
          /\ UNCHANGED <<error, failedIn>>
       \/ /\ \A k \in 1..Len(searchResults) : searchResults[k].defined
          /\ ContentItems(searchResults) # <<>>
          /\ \E keep \in SUBSET (1..Len(ContentItems(searchResults))) :
               /\ keep # 1..Len(ContentItems(searchResults))
               /\ store' = AddBatch(store, Namespace(topic),
                                    Pick(ContentItems(searchResults), keep, 1))
          /\ Throw("filter", "IndexError")
          /\ failedIn' = "filter"
          /\ UNCHANGED indexed
    /\ UNCHANGED <<runs, runVars, loopVars, searchCache, fetchGhost, exhausted, delays,
                   cacheGhost, saveGhost>>
    /\ UNCHANGED funVars

\* filterNode from the similarity search to the return: the search, the grouping,
\* clearNamespace
FilterSearch ==
    /\ pc = "filterSearch"
    /\ \/ /\ Throw("filter", "IndexError")
          /\ failedIn' = "filter"
          /\ UNCHANGED <<filteredResults, store>>
       \/ /\ \E matches \in Matches(store, Namespace(topic), SearchLimit) :
               filteredResults' = GroupByQuery(<<>>, searchResults, matches)
          /\ store' = ClearNamespace(store)
          /\ pc' = NextNode("filter")
          /\ UNCHANGED <<error, failedIn>>
    /\ UNCHANGED <<runs, topic, generatedQueries, searchResults, summary, sources,
                   loopVars, searchCache, indexed, stagesRun, fetchGhost, exhausted,
                   delays, cacheGhost, saveGhost>>
    /\ UNCHANGED funVars

\* ---------------------------------------------------------- summarizeNode

\* The text of the LLM's report
Summaries == {"", "report"}

\* The sources map with sourcesMap.set on every item: the last url seen wins
RECURSIVE CollectItems_Overwrite(_, _)
CollectItems_Overwrite(acc, items) ==
    IF items = <<>> THEN acc
    ELSE LET source == Head(items)
             entry == [url |-> source.url, title |-> source.title,
                       relevance |-> source.relevanceScore]
             seen == \E k \in 1..Len(acc) : acc[k].url = source.url
         IN  CollectItems_Overwrite(
                IF seen
                THEN [k \in 1..Len(acc) |->
                        IF acc[k].url = source.url THEN entry ELSE acc[k]]
                ELSE Append(acc, entry),
                Tail(items))

\* summarizeNode: the sources map, first url seen wins; relevanceScore || 5
RECURSIVE CollectItems(_, _)
CollectItems(acc, items) ==
    IF items = <<>> THEN acc
    ELSE LET source == Head(items)
             seen == \E k \in 1..Len(acc) : acc[k].url = source.url
         IN  CollectItems(
                IF seen THEN acc
                ELSE Append(acc, [url |-> source.url,
                                  title |-> source.title,
                                  relevance |-> IF source.relevanceScore # 0
                                                THEN source.relevanceScore
                                                ELSE DefaultRelevance * Unit]),
                Tail(items))

RECURSIVE CollectGroups(_, _)
CollectGroups(acc, groups) ==
    IF groups = <<>> THEN acc
    ELSE CollectGroups(CollectItems(acc, Head(groups).results), Tail(groups))

\* A sort that puts x before the entries of equal relevance
InsertSorted_Unstable(sorted, x) ==
    LET before == {k \in 1..Len(sorted) : sorted[k].relevance <= x.relevance}
        at == IF before = {} THEN Len(sorted) + 1
              ELSE CHOOSE k \in before : \A j \in before : k <= j
    IN  SubSeq(sorted, 1, at - 1) \o <<x>> \o SubSeq(sorted, at, Len(sorted))

\* toSorted((a, b) => b.relevance - a.relevance): x goes before the first entry
\* of lower relevance
InsertSorted(sorted, x) ==
    LET before == {k \in 1..Len(sorted) : sorted[k].relevance < x.relevance}
        at == IF before = {} THEN Len(sorted) + 1
              ELSE CHOOSE k \in before : \A j \in before : k <= j
    IN  SubSeq(sorted, 1, at - 1) \o <<x>> \o SubSeq(sorted, at, Len(sorted))

RECURSIVE ToSorted(_, _)
ToSorted(sorted, rest) ==
    IF rest = <<>> THEN sorted
    ELSE ToSorted(InsertSorted(sorted, Head(rest)), Tail(rest))

\* summarizeNode without its slice(0, 15)
TopSources_NoSlice(groups) == ToSorted(<<>>, CollectGroups(<<>>, groups))

\* summarizeNode: [...sourcesMap.values()].toSorted(...).slice(0, 15)
TopSources(groups) ==
    LET all == ToSorted(<<>>, CollectGroups(<<>>, groups))
    IN  SubSeq(all, 1, Min(Len(all), MaxSources))

\* summarizeNode: llm.invoke, then the sources
Summarize ==
    /\ pc = "summarize"
    /\ stagesRun' = Append(stagesRun, "summarize")
    /\ \/ /\ Throw("summarize", "LLMError")
          /\ failedIn' = "summarize"
          /\ UNCHANGED <<summary, sources>>
       \/ /\ \E text \in Summaries : summary' = text
          /\ sources' = TopSources(filteredResults)
          /\ pc' = NextNode("summarize")
          /\ UNCHANGED <<error, failedIn>>
    /\ UNCHANGED <<runs, topic, generatedQueries, searchResults, filteredResults,
                   loopVars, searchCache, store, indexed, fetchGhost, exhausted,
                   delays, cacheGhost, saveGhost>>
    /\ UNCHANGED funVars

\* --------------------------------------------------------------- saveNode

\* saveNode: {query: state.topic, summary: state.summary, sources: urls}
StorageData ==
    [query |-> topic, summary |-> summary,
     sources |-> [k \in 1..Len(sources) |-> sources[k].url]]

\* MongoDBStorageTool._call: if (!data.query || !data.summary) return "Error: ..."
Rejected(data) == data.query = <<>> \/ data.summary = ""

\* saveNode: storageTool._call(storageData), whose result is dropped, then the
\* log line and the return.  _call returns a text in every case: it refuses the
\* data, or insertOne stores the document, or connect or insertOne throws and the
\* catch turns the error into the text "Error saving to MongoDB: ..."
Save ==
    /\ pc = "save"
    /\ stagesRun' = Append(stagesRun, "save")
    /\ \/ /\ Rejected(StorageData)
          /\ UNCHANGED <<inserted, dbWriteFailed>>
       \/ /\ ~Rejected(StorageData)
          /\ inserted' = Append(inserted, StorageData)
          /\ UNCHANGED dbWriteFailed
       \/ /\ ~Rejected(StorageData)
          /\ dbWriteFailed' = TRUE
          /\ UNCHANGED inserted
    /\ savedLogged' = TRUE
    /\ pc' = NextNode("save")
    /\ UNCHANGED <<error, runs, runVars, loopVars, searchCache, store, indexed, failedIn,
                   fetchGhost, exhausted, delays, cacheGhost>>
    /\ UNCHANGED funVars

\* ---------------------------------------------------------- specification

Next ==
    \/ Research
    \/ GenerateQueries
    \/ SearchLoop
    \/ FetchAttempt
    \/ RetrySleep
    \/ SearchGraph
    \/ SearchDelayStep
    \/ FilterIndex
    \/ FilterSearch
    \/ Summarize
    \/ Save

Spec == Init /\ [][Next]_vars

\* The steps of a run: everything research() does once it has been called
RunStep ==
    \/ GenerateQueries
    \/ SearchLoop
    \/ FetchAttempt
    \/ RetrySleep
    \/ SearchGraph
    \/ SearchDelayStep
    \/ FilterIndex
    \/ FilterSearch
    \/ Summarize
    \/ Save

\* Every collaborator call returns or throws, and the awaiting code goes on
FairSpec == Spec /\ WF_vars(RunStep)

\* ------------------------------------- a run with its attempts counted

\* The axios.get calls of the run: none yet
NoFetches == [kind |-> "fetches", count |-> 0]

\* A ResearchAgent after its constructor, research(topic) just called
CountInit ==
    /\ pc = NextNode("start")
    /\ error = ""
    /\ runs = 1
    /\ topic = <<"X", " ", "Y">>
    /\ generatedQueries = <<>>
    /\ searchResults = <<>>
    /\ filteredResults = <<>>
    /\ summary = ""
    /\ sources = <<>>
    /\ spc = "loop"
    /\ pos = 1
    /\ attempt = 1
    /\ rawResults = <<>>
    /\ searchCache = {}
    /\ store = {}
    /\ indexed = <<>>
    /\ stagesRun = <<>>
    /\ failedIn = "none"
    /\ attempts = 0
    /\ failures = 0
    /\ retrySlept = 0
    /\ exhausted = {}
    /\ delays = {}
    /\ called = {}
    /\ lateCalls = {}
    /\ inserted = <<>>
    /\ dbWriteFailed = FALSE
    /\ savedLogged = FALSE
    /\ fpc = "off"
    /\ fin = NoValue
    /\ fout = NoFetches

\* One turn of the loop of getStructuredResults, its axios.get counted
FetchCounted ==
    /\ pc = "search"
    /\ spc = "fetch"
    /\ \E reply \in EngineReplies : Fetch(reply)
    /\ fout' = [fout EXCEPT !.count = @ + 1]
    /\ UNCHANGED <<fpc, fin>>

CountNext ==
    \/ GenerateQueries
    \/ SearchLoop
    \/ FetchCounted
    \/ RetrySleep
    \/ SearchGraph
    \/ SearchDelayStep
    \/ FilterIndex
    \/ FilterSearch
    \/ Summarize
    \/ Save

\* Every collaborator call returns or throws, and the awaiting code goes on
CountSpec == CountInit /\ [][CountNext]_vars /\ WF_vars(CountNext)

\* ------------------------------------------- functions applied on their own

\* filterNode's relevance mapping applied to one score of the index
ScoreInputs ==
    { [kind |-> "score", score |-> sc] :
        sc \in {<<>>} \cup { <<n>> : n \in (0 - ScoreSpan)..ScoreSpan } }

ApplyRelevanceScore ==
    /\ fpc = "ready"
    /\ fin.kind = "score"
    /\ fout' = [kind |-> "relevance", value |-> RelevanceScore(fin.score)]
    /\ fpc' = "applied"
    /\ UNCHANGED <<fin, agentVars>>

\* The text of number n after a prefix, as two digits: a title, a url, a query
Name(prefix, n) == <<prefix, Digits[(n \div 10) + 1], Digits[(n % 10) + 1]>>

\* The relevance of the k-th item of a list: the patterns are constant, rising,
\* falling, two alternating values, three values in turn
RelevancePatterns == {"same", "rising", "falling", "two", "three"}

PatternRelevance(pattern, k) ==
    CASE pattern = "same" -> 5 * Unit
      [] pattern = "rising" -> 50 * k
      [] pattern = "falling" -> 10 * Unit - 50 * k
      [] pattern = "two" -> IF k % 2 = 1 THEN 3 * Unit ELSE 7 * Unit
      [] pattern = "three" -> ((k % 3) + 1) * Unit

\* n items for filteredResults: the k-th has the title of number k, the url of
\* number ((k - 1) % period) + 1 and the relevanceScore of the pattern
GroupItems(n, period, pattern) ==
    [k \in 1..n |-> [title |-> Name("T", k),
                     url |-> Name("u", ((k - 1) % period) + 1),
                     snippet |-> "c",
                     relevanceScore |-> PatternRelevance(pattern, k)]]

\* The items in groups of size items each, in order
RECURSIVE SplitGroups(_, _, _)
SplitGroups(items, size, g) ==
    IF items = <<>> THEN <<>>
    ELSE LET n == Min(size, Len(items)) IN
         <<SearchResult(Name("q", g), SubSeq(items, 1, n), "s", 1)>>
         \o SplitGroups(SubSeq(items, n + 1, Len(items)), size, g + 1)

\* filteredResults as summarizeNode may find it
GroupInputs ==
    { [kind |-> "groups",
       groups |-> SplitGroups(GroupItems(n, period, pattern), size, 1)] :
        n \in 0..MaxItems, period \in {3, 16, MaxItems},
        pattern \in RelevancePatterns, size \in {1, 5, MaxItems} }

\* summarizeNode's collection of the sources applied to filteredResults
ApplyTopSources ==
    /\ fpc = "ready"
    /\ fin.kind = "groups"
    /\ fout' = [kind |-> "sources", sources |-> TopSources(fin.groups)]
    /\ fpc' = "applied"
    /\ UNCHANGED <<fin, agentVars>>

\* Two runs of filterNode on one ResearchAgent, the first on the topic first
\* with the SearchResults earlier, the second on the topic second with the
\* SearchResults later; the two runs have no query in common
IsolationTopics == Topics \cup {<<"x", " ", "y">>, <<"Z">>}

IsolationInputs ==
    { [kind |-> "topics", first |-> t1, second |-> t2,
       earlier |-> <<SearchResult(<<"a">>, ToStructured(r1, MaxResults), "s", 1)>>,
       later |-> <<SearchResult(<<"b">>, ToStructured(r2, MaxResults), "s", 2)>>] :
        t1 \in IsolationTopics, t2 \in IsolationTopics,
        r1 \in SeqsOf(RawItems, 1, 1), r2 \in SeqsOf(RawItems, 1, 1) }

\* filterNode's use of the index in the two runs: addBatch, search and
\* clearNamespace of the first run, then addBatch and search of the second
ApplySearchSecondTopic ==
    /\ fpc = "ready"
    /\ fin.kind = "topics"
    /\ LET left == ClearNamespace(AddBatch({}, Namespace(fin.first),
                                            ContentItems(fin.earlier)))
           st == AddBatch(left, Namespace(fin.second), ContentItems(fin.later))
       IN  \E hits \in Matches(st, Namespace(fin.second), SearchLimit) :
              fout' = [kind |-> "hits", hits |-> hits]
    /\ fpc' = "applied"
    /\ UNCHANGED <<fin, agentVars>>

\* searchNode's output for MinQueries queries, each with MaxResults raw results,
\* every url different; the queries differ, since a query asked again is answered
\* from the cache with the urls of the first answer
RawOf(q) ==
    [k \in 1..MaxResults |->
        [title |-> "T1", url |-> Name("u", (q - 1) * MaxResults + k), content |-> "c"]]

FullResults ==
    [q \in 1..MinQueries |->
        SearchResult(Name("q", q), ToStructured(RawOf(q), MaxResults),
                     IF q = MinQueries THEN "No response generated" ELSE "s",
                     IF q = 1 THEN 1 ELSE 2)]

\* The same, the second query having brought no raw results
SparseResults == [FullResults EXCEPT ![2].results = <<>>]

\* searchNode's output for MaxQueries queries, each with MaxResults raw results
WideResults ==
    [q \in 1..MaxQueries |->
        SearchResult(Name("q", q), ToStructured(RawOf(q), MaxResults), "s", 1)]

\* What an earlier run on the topic may have left in the index: nothing, or an
\* entry of a query that this run does not have
OrphanItem ==
    [id |-> MakeId(Name("o", 0), 0, Name("u", 0)),
     value |-> [text |-> <<"T1", "c", Name("o", 0)>>, title |-> "T1",
                url |-> Name("u", 0), snippet |-> "c", query |-> Name("o", 0),
                summary |-> "s"]]

\* The score of the k-th hit: the patterns are non-increasing in the order of
\* the index
ScorePatterns == {"high", "mid", "none", "steps"}

PatternScore(pattern, k) ==
    CASE pattern = "high" -> <<140>>
      [] pattern = "mid" -> <<73>>
      [] pattern = "none" -> <<>>
      [] pattern = "steps" -> IF k <= 4 THEN <<140>>
                              ELSE IF k <= 9 THEN <<73>>
                              ELSE IF k <= 13 THEN <<0 - 50>> ELSE <<>>

\* The hits of the similarity search: the run's items from the one at position
\* shift + 1 round, forwards or backwards, after the orphan when there is one,
\* up to the limit of filterNode's search
HitList(items, shift, backwards, orphans, pattern) ==
    LET n == Len(items)
        turn(k) == ((k - 1 + shift) % n) + 1
        order == [k \in 1..n |-> items[IF backwards THEN n + 1 - turn(k) ELSE turn(k)]]
        all == orphans \o order
    IN  [k \in 1..Min(Len(all), SearchLimit) |->
            [key |-> all[k].id, value |-> all[k].value, score |-> PatternScore(pattern, k)]]

\* hits is a result of VectorSearch.search(namespace, query, undefined, limit)
IsMatchList(hits, st, namespace, limit) ==
    LET entries == {e \in st : e.ns = namespace} IN
    /\ Len(hits) = Min(limit, Cardinality(entries))
    /\ \A k \in 1..Len(hits) :
         /\ [ns |-> namespace, key |-> hits[k].key, value |-> hits[k].value] \in entries
         /\ hits[k].score \in Scores
    /\ \A j, k \in 1..Len(hits) : j < k => hits[j].key # hits[k].key
    /\ \A k \in 1..(Len(hits) - 1) :
         ScoreKey(hits[k].score) >= ScoreKey(hits[k + 1].score)

PipelineInputs ==
    { [kind |-> "pipeline", topic |-> t, results |-> r, shift |-> shift,
       backwards |-> b, orphans |-> o, pattern |-> pattern] :
        t \in Topics, r \in {FullResults, SparseResults, WideResults},
        shift \in 0..(MinQueries * MaxResults - 1), b \in BOOLEAN,
        o \in {<<>>, <<OrphanItem>>}, pattern \in ScorePatterns }

\* filterNode applied to searchNode's output: addBatch on what the earlier run
\* left, a result of the search, the grouping
ApplyFilter ==
    /\ fpc = "ready"
    /\ fin.kind = "pipeline"
    /\ LET space == Namespace(fin.topic)
           contentItems == ContentItems(fin.results)
           index == AddBatch(AddBatch({}, space, fin.orphans), space, contentItems)
           candidate == HitList(contentItems, fin.shift, fin.backwards, fin.orphans,
                                fin.pattern)
       IN  \E found \in {h \in {candidate} : IsMatchList(h, index, space, SearchLimit)} :
              fout' = [kind |-> "filtered", indexed |-> contentItems, hits |-> found,
                       groups |-> GroupByQuery(<<>>, fin.results, found)]
    /\ fpc' = "filtered"
    /\ UNCHANGED <<fin, agentVars>>

\* the sources of summarizeNode applied to filterNode's output
ApplyCollect ==
    /\ fpc = "filtered"
    /\ fout' = [kind |-> "report", indexed |-> fout.indexed, hits |-> fout.hits,
                 groups |-> fout.groups, sources |-> TopSources(fout.groups)]
    /\ fpc' = "applied"
    /\ UNCHANGED <<fin, agentVars>>

\* A reply of the LLM: a lead, a middle and a trail of ReplyTexts, with the array
\* of its queries member
ReplyInputs ==
    { [kind |-> "reply", lead |-> pre, middle |-> mid, trail |-> post,
       queries |-> queries] :
        pre \in {<<>>, <<"t", " ">>},
        mid \in {<<"{", "Q", "}">>, <<"{", "O", "}">>, <<"{", "Q">>, <<"t">>},
        post \in {<<>>, <<" ", "t">>},
        queries \in {qs \in QueryArrays : Len(qs) \in {MinQueries - 1, MinQueries}} }

\* extractJsonFromLLMResponse applied to the text of a reply
ApplyExtractJson ==
    /\ fpc = "ready"
    /\ fin.kind = "reply"
    /\ fout' = [kind |-> "extracted",
                 value |-> extractJsonFromLLMResponse(fin.lead \o fin.middle \o fin.trail,
                                                      fin.queries)]
    /\ fpc' = "applied"
    /\ UNCHANGED <<fin, agentVars>>

\* What SearchAgent.search(query) does: it throws, or returns a SearchResult
\* with or without results
CallOutcomes(query) ==
    {Thrown}
    \cup {Returned(SearchResult(query, ToStructured(raw, MaxResults), "s", 2)) :
            raw \in RawResponses}

\* A _call of SearchAgentTool: its cache, the query, the outcome of the search
CallInputs ==
    UNION { { [kind |-> "call", cache |-> cache, query |-> query, outcome |-> outcome] :
                cache \in {{}, {SearchResult(<<"b">>, <<>>, "s", 1)}},
                outcome \in CallOutcomes(query) } :
            query \in QueryStrings }

\* SearchAgentTool._call on a query that the cache does not have
ApplyCall ==
    /\ fpc = "ready"
    /\ fin.kind = "call"
    /\ ~UseCache(fin.cache, fin.query)
    /\ fout' = [kind |-> "cached",
                 cache |-> CacheAfterCall(fin.cache, fin.query, fin.outcome)]
    /\ fpc' = "applied"
    /\ UNCHANGED <<fin, agentVars>>

FunInputs ==
    ScoreInputs \cup GroupInputs \cup IsolationInputs \cup PipelineInputs \cup ReplyInputs
    \cup CallInputs

FunInit ==
    /\ Constructed
    /\ fpc = "ready"
    /\ fin \in FunInputs
    /\ fout = NoValue

FunNext ==
    \/ ApplyRelevanceScore
    \/ ApplyTopSources
    \/ ApplySearchSecondTopic
    \/ ApplyFilter
    \/ ApplyCollect
    \/ ApplyExtractJson
    \/ ApplyCall

FunSpec == FunInit /\ [][FunNext]_vars

\* ------------------------------- getStructuredResults on scripted outcomes

\* response.data.results with n results
WideItems(n) ==
    [k \in 1..n |-> [title |-> "T1", url |-> Name("u", k),
                     content |-> IF k % 2 = 0 THEN "" ELSE "c"]]

\* One axios.get: it throws, or response.data.results is missing, or is an array
\* of up to MaxRaw results
Outcomes ==
    { [kind |-> "error", results |-> <<>>], [kind |-> "missing", results |-> <<>>] }
    \cup { [kind |-> "ok", results |-> WideItems(n)] : n \in 0..MaxRaw }

\* What the attempts of one getStructuredResults call would bring, in order
OutcomeInputs ==
    { [kind |-> "outcomes", replies |-> replies] : replies \in [1..MaxRetries -> Outcomes] }

\* A run of research() at the first getStructuredResults call of searchNode
FetchInit ==
    /\ pc = "search"
    /\ error = ""
    /\ runs = 1
    /\ topic \in Topics
    /\ generatedQueries \in {queries \in QueryArrays : Len(queries) = MinQueries}
    /\ searchResults = <<>>
    /\ filteredResults = <<>>
    /\ summary = ""
    /\ sources = <<>>
    /\ spc = "fetch"
    /\ pos = 1
    /\ attempt = 1
    /\ rawResults = <<>>
    /\ searchCache = {}
    /\ store = {}
    /\ indexed = <<>>
    /\ stagesRun = <<"generateQueries", "search">>
    /\ failedIn = "none"
    /\ attempts = 0
    /\ failures = 0
    /\ retrySlept = 0
    /\ exhausted = {}
    /\ delays = {}
    /\ called = {1}
    /\ lateCalls = {}
    /\ inserted = <<>>
    /\ dbWriteFailed = FALSE
    /\ savedLogged = FALSE
    /\ fpc = "off"
    /\ fin \in OutcomeInputs
    /\ fout = NoValue

\* getStructuredResults, one turn of the loop on the outcome of the attempt
FetchOutcome ==
    /\ pc = "search"
    /\ spc = "fetch"
    /\ fin.kind = "outcomes"
    /\ Fetch(fin.replies[attempt])
    /\ UNCHANGED funVars

FetchNext ==
    \/ FetchOutcome
    \/ RetrySleep

FetchSpec == FetchInit /\ [][FetchNext]_vars

\* ------------------------------------------------------------------ claims

\* The positions of generatedQueries whose getStructuredResult call has returned
Processed == {k \in 1..Len(searchResults) : k < pos \/ spc = "delay" \/ pc # "search"}

\* searchNode has returned
SearchCompleted == Len(stagesRun) >= 2 /\ pc # "search"

\* C1: every run executes the nodes in the order generateQueries, search, filter,
\* summarize, save, each at most once and none skipped, and research() returns
\* only after save has run.
C1_StageOrder ==
    /\ Len(stagesRun) <= Len(Stages)
    /\ \A k \in 1..Len(stagesRun) : stagesRun[k] = Stages[k]
    /\ pc = "done" => stagesRun = Stages

C1_Witness == pc = "done" /\ Len(stagesRun) = 5 /\ runs = 2

\* C2: once a collaborator call has failed in generateQueries, search, filter or
\* summarize, no later node runs (the failed node is the last node that ran),
\* research() does not return a report, and no document is written.
C2_AbortOnFailure ==
    failedIn # "none" =>
        /\ stagesRun[Len(stagesRun)] = failedIn
        /\ pc # "done"
        /\ inserted = <<>>

\* C3: when searchNode has returned for n queries, searchResults has n entries
\* and entry i is a SearchResult whose query is queries[i].
C3_SearchOutput ==
    SearchCompleted =>
        /\ Len(searchResults) = Len(generatedQueries)
        /\ \A k \in 1..Len(searchResults) :
             /\ searchResults[k].defined
             /\ searchResults[k].query = generatedQueries[k]

C5_ExhaustedFetch ==
    /\ (pc = "search" /\ spc = "graph" /\ failures = attempts) =>
         /\ attempts = 3
         /\ retrySlept = 2 * 3000
         /\ rawResults = <<>>
         /\ error = ""
    /\ (pc = "search" /\ spc = "fetch") => retrySlept = attempts * 3000
    /\ (pc = "search" /\ spc = "retrySleep") => retrySlept = (attempts - 1) * 3000

C5_Witness ==
    pc = "search" /\ spc = "graph" /\ failures = attempts /\ attempts = 3

\* C6: a run in which a getStructuredResults call used up its attempts, and in
\* which no other collaborator call fails, goes on to the end: the query
\* contributes a SearchResult with an empty result list, no node throws, and
\* research() returns after all five nodes have run.
C6_SoftFailureReachesDone ==
    /\ [](\A k \in exhausted :
            k \in Processed /\ failedIn = "none" =>
                /\ searchResults[k].defined
                /\ searchResults[k].query = generatedQueries[k]
                /\ searchResults[k].results = <<>>)
    /\ []((exhausted # {} /\ failedIn = "none") => pc # "error")
    /\ ((exhausted # {} /\ failedIn = "none") ~>
            ((pc = "done" /\ stagesRun = Stages /\ exhausted # {}) \/ failedIn # "none"))

C6_Witness ==
    /\ pc = "done"
    /\ exhausted # {}
    /\ \E k \in 1..Len(searchResults) : searchResults[k].results # <<>>

\* C7: when the database write of saveNode fails, research() ends with an error
\* and no successful save is reported.
C7_SaveFailurePropagates ==
    dbWriteFailed => pc = "error" /\ ~savedLogged

\* C8: a run that reaches done (its database write not having failed) has
\* inserted exactly one document {query: topic, summary, sources: urls of the
\* top sources in order}, whatever the summary, the empty string included.
C8_DoneImpliesSaved ==
    (pc = "done" /\ ~dbWriteFailed) =>
        inserted = <<[query |-> topic, summary |-> summary,
                      sources |-> [k \in 1..Len(sources) |-> sources[k].url]]>>

\* C9: after generateQueriesNode, either it has thrown or generatedQueries holds
\* 3 to 5 queries, each non-empty after trimming.
C9_QueriesNonEmpty ==
    Len(stagesRun) >= 1 =>
        \/ pc = "error" /\ Len(stagesRun) = 1
        \/ /\ Len(generatedQueries) >= 3
           /\ Len(generatedQueries) <= 5
           /\ \A k \in 1..Len(generatedQueries) : Trim(generatedQueries[k]) # <<>>

\* C10: every relevanceScore of a group item and every relevance of a source
\* lies in [0, 10].
C10_RelevanceInRange ==
    /\ \A g \in 1..Len(filteredResults) :
         \A k \in 1..Len(filteredResults[g].results) :
            /\ filteredResults[g].results[k].relevanceScore >= 0
            /\ filteredResults[g].results[k].relevanceScore <= 10 * Unit
    /\ \A k \in 1..Len(sources) :
         /\ sources[k].relevance >= 0
         /\ sources[k].relevance <= 10 * Unit

\* C11: the relevance of a match is min(10, score * 10) whenever the match
\* carries a score, the score 0 included, and 5 only when it carries none.
C11_RelevanceMapping ==
    fout.kind = "relevance" =>
        IF fin.score # <<>>
        THEN fout.value = Min(10 * Unit, fin.score[1] * 10)
        ELSE fout.value = 5 * Unit

\* The items of the groups in iteration order: groups in order, items in order
RECURSIVE Flatten(_)
Flatten(groups) ==
    IF groups = <<>> THEN <<>> ELSE Head(groups).results \o Flatten(Tail(groups))

\* The position in items of the first item with the url
FirstPos(items, url) ==
    CHOOSE k \in 1..Len(items) :
        items[k].url = url /\ \A j \in 1..(k - 1) : items[j].url # url

\* The urls of the items
UrlsOf(items) == {items[k].url : k \in 1..Len(items)}

\* C12: the top sources are at most 15, ordered by non-increasing relevance, and
\* no two of them have the same url.
C12_TopSourcesShape ==
    fout.kind = "sources" =>
        LET out == fout.sources IN
        /\ Len(out) <= 15
        /\ \A k \in 1..(Len(out) - 1) : out[k].relevance >= out[k + 1].relevance
        /\ \A j, k \in 1..Len(out) : out[j].url = out[k].url => j = k

C12_Witness ==
    /\ fout.kind = "sources"
    /\ Len(fout.sources) = 15
    /\ Len(Flatten(fin.groups)) > Cardinality(UrlsOf(Flatten(fin.groups)))
    /\ Cardinality(UrlsOf(Flatten(fin.groups))) > 15
    /\ fout.sources[1].relevance > fout.sources[15].relevance

\* C13: the source of a url carries the title and the relevance of the first
\* item with that url in iteration order, whatever the later items with the url
\* carry.
C13_FirstSeenWins ==
    fout.kind = "sources" =>
        LET out == fout.sources
            items == Flatten(fin.groups)
        IN  \A k \in 1..Len(out) :
              /\ out[k].url \in UrlsOf(items)
              /\ out[k].title = items[FirstPos(items, out[k].url)].title
              /\ out[k].relevance = items[FirstPos(items, out[k].url)].relevanceScore

C13_Witness ==
    /\ fout.kind = "sources"
    /\ Len(fin.groups) > 1
    /\ \E k \in 1..Len(fout.sources), j \in 1..Len(Flatten(fin.groups)) :
         /\ Flatten(fin.groups)[j].url = fout.sources[k].url
         /\ j > FirstPos(Flatten(fin.groups), fout.sources[k].url)
         /\ Flatten(fin.groups)[j].relevanceScore > fout.sources[k].relevance

\* C14: for d distinct urls the top sources are min(15, d); sources of equal
\* relevance stand in the order in which their urls were first seen, and a url
\* left out was first seen after every source of its relevance that was kept.
C14_StableTruncation ==
    fout.kind = "sources" =>
        LET out == fout.sources
            items == Flatten(fin.groups)
            kept == {out[k].url : k \in 1..Len(out)}
        IN  /\ Len(out) = Min(15, Cardinality(UrlsOf(items)))
            /\ \A j, k \in 1..Len(out) :
                 (j < k /\ out[j].relevance = out[k].relevance)
                    => FirstPos(items, out[j].url) < FirstPos(items, out[k].url)
            /\ \A u \in UrlsOf(items) \ kept : \A k \in 1..Len(out) :
                 /\ items[FirstPos(items, u)].relevanceScore <= out[k].relevance
                 /\ items[FirstPos(items, u)].relevanceScore = out[k].relevance
                      => FirstPos(items, out[k].url) < FirstPos(items, u)

C14_Witness ==
    /\ fout.kind = "sources"
    /\ Cardinality(UrlsOf(Flatten(fin.groups))) > 15
    /\ \E u \in UrlsOf(Flatten(fin.groups)) :
         /\ \A k \in 1..Len(fout.sources) : fout.sources[k].url # u
         /\ Flatten(fin.groups)[FirstPos(Flatten(fin.groups), u)].relevanceScore
              = fout.sources[15].relevance
    /\ \E j, k \in 1..15 :
         j < k /\ fout.sources[j].relevance > fout.sources[k].relevance

\* filterNode has returned
FilterCompleted == Len(stagesRun) >= 3 /\ pc \in {"summarize", "save", "done"}

\* The queries of this run's SearchResults
RunQueries == {searchResults[k].query : k \in 1..Len(searchResults)}

\* The entries of the index under the namespace of the run
NamespaceEntries == {e \in store : e.ns = Namespace(topic)}

\* C15: every group of filteredResults has the query of one of this run's
\* SearchResults, and each of its items is an indexed entry of that query: a
\* match of another query makes no group and adds no item.
C15_NoOrphanGroups ==
    \A g \in 1..Len(filteredResults) :
        /\ filteredResults[g].query \in RunQueries
        /\ \A k \in 1..Len(filteredResults[g].results) :
             \E e \in NamespaceEntries :
                /\ e.value.query = filteredResults[g].query
                /\ e.value.url = filteredResults[g].results[k].url
                /\ e.value.title = filteredResults[g].results[k].title
                /\ e.value.snippet = filteredResults[g].results[k].snippet

C15_Witness ==
    /\ FilterCompleted
    /\ filteredResults # <<>>
    /\ \E e \in NamespaceEntries : e.value.query \notin RunQueries
    /\ Cardinality(NamespaceEntries) <= SearchLimit

\* C17: once filterNode has returned (clearNamespace has run), the index holds
\* no entry under the namespace of the run.
C17_NamespaceCleared ==
    FilterCompleted => NamespaceEntries = {}

\* C19: when searchNode has returned for n queries, it has slept 2000 ms after
\* each of the positions 1..n-1 and after no other.
C19_SleepsBetweenQueries ==
    (SearchCompleted /\ Len(searchResults) = Len(generatedQueries))
        => delays = 1..(Len(generatedQueries) - 1)

\* The hits of the second run that the first run indexed
EarlierHits ==
    {k \in 1..Len(fout.hits) :
        \E j \in 1..Len(fin.earlier) : fout.hits[k].value.query = fin.earlier[j].query}

C18_EndToEnd ==
    (/\ fout.kind = "report"
     /\ Len(fin.results) = 3
     /\ Len(fout.indexed) = 15
     /\ \A j, k \in 1..15 : fout.indexed[j].value.url = fout.indexed[k].value.url => j = k
     /\ \A k \in 1..15 : \E h \in 1..Len(fout.hits) : fout.hits[h].key = fout.indexed[k].id)
    =>
        /\ Len(fout.groups) = 3
        /\ \A q \in 1..3 : \E g \in 1..3 :
             /\ fout.groups[g].query = fin.results[q].query
             /\ Len(fout.groups[g].results) = 5
             /\ {fout.groups[g].results[k].url : k \in 1..5}
                  = {fin.results[q].results[k].url : k \in 1..5}
        /\ Len(fout.sources) = 15
        /\ \A k \in 1..14 : fout.sources[k].relevance >= fout.sources[k + 1].relevance

C18_Witness ==
    /\ fout.kind = "report"
    /\ Len(fout.hits) = 16
    /\ Len(fout.groups) = 3
    /\ fout.groups[1].query # fin.results[1].query
    /\ fout.sources[1].relevance > fout.sources[15].relevance

\* What slice(0, 5).map gives for the results of a reply
FirstItems(results) ==
    [k \in 1..(IF Len(results) < 5 THEN Len(results) ELSE 5) |->
        [title |-> results[k].title, url |-> results[k].url]]

\* An attempt's outcome brings no result set with an item in it
FailedOutcome(k) == fin.replies[k].kind # "ok" \/ fin.replies[k].results = <<>>

\* The first attempt whose outcome is a non-empty result set, 0 when none is
FirstSuccess ==
    IF \A k \in 1..3 : FailedOutcome(k) THEN 0
    ELSE CHOOSE k \in 1..3 : ~FailedOutcome(k) /\ \A j \in 1..(k - 1) : FailedOutcome(j)

\* C20: whatever the outcomes of the attempts, getStructuredResults makes at
\* most 3 attempts; it returns at the first attempt with a non-empty result set,
\* with the first 5 items of it at most, after no further attempt or sleep; it
\* has slept 3000 ms once for each failed attempt that another attempt followed.
C20_RetryProtocol ==
    fin.kind = "outcomes" =>
        /\ attempts <= 3
        /\ spc = "fetch" => retrySlept = 3000 * attempts
        /\ spc = "retrySleep" => retrySlept = 3000 * (attempts - 1)
        /\ spc = "graph" =>
             IF FirstSuccess # 0
             THEN /\ attempts = FirstSuccess
                  /\ retrySlept = 3000 * (FirstSuccess - 1)
                  /\ Len(rawResults) <= 5
                  /\ [k \in 1..Len(rawResults) |->
                        [title |-> rawResults[k].title, url |-> rawResults[k].url]]
                       = FirstItems(fin.replies[FirstSuccess].results)
             ELSE /\ attempts = 3
                  /\ retrySlept = 3000 * 2
                  /\ rawResults = <<>>

C20_Witness ==
    /\ fin.kind = "outcomes"
    /\ spc = "graph"
    /\ FirstSuccess = 3
    /\ Len(fin.replies[3].results) = 7
    /\ Len(rawResults) = 5
    /\ retrySlept = 6000

\* The matches of the similarity search whose query is query, as group items
RECURSIVE MatchesOf(_, _)
MatchesOf(hits, query) ==
    IF hits = <<>> THEN <<>>
    ELSE (IF Head(hits).value.query = query
          THEN <<[title |-> Head(hits).value.title, url |-> Head(hits).value.url,
                  snippet |-> Head(hits).value.snippet]>>
          ELSE <<>>) \o MatchesOf(Tail(hits), query)

\* The items of a group without their relevance
ItemsOf(group) ==
    [k \in 1..Len(group.results) |->
        [title |-> group.results[k].title, url |-> group.results[k].url,
         snippet |-> group.results[k].snippet]]

\* C21: filterNode's output has one group for each query of the run that has a
\* match and none for a query of the run without a match; every group has
\* items, has the summary and the timestamp of the original SearchResult of its
\* query, and its items are the matches of its query in the order of the matches.
C21_GroupsOfMatchedQueries ==
    fout.kind \in {"filtered", "report"} =>
        /\ \A q \in 1..Len(fin.results) :
             Cardinality({g \in 1..Len(fout.groups) :
                            fout.groups[g].query = fin.results[q].query})
               = IF MatchesOf(fout.hits, fin.results[q].query) # <<>> THEN 1 ELSE 0
        /\ \A g \in 1..Len(fout.groups) :
             /\ fout.groups[g].results # <<>>
             /\ \E q \in 1..Len(fin.results) :
                  /\ fin.results[q].query = fout.groups[g].query
                  /\ fin.results[q].summary = fout.groups[g].summary
                  /\ fin.results[q].timestamp = fout.groups[g].timestamp
             /\ ItemsOf(fout.groups[g]) = MatchesOf(fout.hits, fout.groups[g].query)

C21_Witness ==
    /\ fout.kind = "filtered"
    /\ Len(fin.results) = 3
    /\ fin.results[2].results = <<>>
    /\ Len(fout.groups) = 2
    /\ fout.groups[1].query = fin.results[3].query
    /\ fout.groups[1].timestamp # fout.groups[2].timestamp
    /\ fout.groups[1].summary # fout.groups[2].summary
    /\ Len(fout.hits) = 11

\* A text without a brace
BraceFree(text) == \A k \in 1..Len(text) : text[k] \notin {"{", "}"}

\* C22: for a reply made of a brace-free lead, one JSON object that the schema
\* accepts and a brace-free trail, either possibly empty,
\* extractJsonFromLLMResponse returns the parsed object.
C22_TextAroundJsonAccepted ==
    (/\ fout.kind = "extracted"
     /\ BraceFree(fin.lead)
     /\ BraceFree(fin.trail)
     /\ fin.middle = <<"{", "Q", "}">>
     /\ Len(fin.queries) = 3)
    => (fout.value.status = "ok" /\ fout.value.queries = fin.queries)

\* C23: over the searches of one instance the cache only grows: an entry stays,
\* with its SearchResult; an entry is added only for the query that is being
\* requested and that has no entry yet, so that the entries are never more than
\* the distinct queries requested so far.
C23_CacheOnlyGrows ==
    [][/\ searchCache \subseteq searchCache'
       /\ \A r1, r2 \in searchCache' : r1.query = r2.query => r1 = r2
       /\ searchCache' # searchCache =>
            /\ pc = "search" /\ spc = "graph"
            /\ ~CacheHas(searchCache, Query)
            /\ \E r \in searchCache' :
                 r.query = Query /\ searchCache' = searchCache \cup {r}]_vars

C23_Witness ==
    /\ runs = 2
    /\ \E r1, r2 \in searchCache :
         r1.query # r2.query /\ r1.timestamp = 1 /\ r2.timestamp = 2

C25_BatchIdsDistinct ==
    \A j, k \in 1..Len(indexed) : indexed[j].id = indexed[k].id => j = k

\* The entry that the write of an item leaves in the store
EntryOf(namespace, item) == [ns |-> namespace, key |-> item.id, value |-> item.value]

\* addBatch rejected: a write of the batch failed
WriteFailed ==
    failedIn = "filter" /\ indexed = <<>> /\ ContentItems(searchResults) # <<>>

RECURSIVE TotalItems(_)
TotalItems(groups) ==
    IF groups = <<>> THEN 0 ELSE Len(Head(groups).results) + TotalItems(Tail(groups))

\* C28: filterNode's output has 20 items at most over all groups, and every item
\* of a group has the url, title and snippet of a raw result of the run's
\* SearchResult for the query of the group.
C28_BoundedItemsOfTheRun ==
    fout.kind \in {"filtered", "report"} =>
        /\ TotalItems(fout.groups) <= 20
        /\ \A g \in 1..Len(fout.groups) : \A k \in 1..Len(fout.groups[g].results) :
             \E q \in 1..Len(fin.results) :
               /\ fin.results[q].query = fout.groups[g].query
               /\ \E j \in 1..Len(fin.results[q].results) :
                    /\ fin.results[q].results[j].url = fout.groups[g].results[k].url
                    /\ fin.results[q].results[j].title = fout.groups[g].results[k].title
                    /\ fin.results[q].results[j].snippet = fout.groups[g].results[k].snippet

C28_Witness ==
    /\ fout.kind = "filtered"
    /\ Len(fout.indexed) = 25
    /\ fin.orphans # <<>>
    /\ Len(fout.hits) = 20
    /\ TotalItems(fout.groups) = 19

\* C29: every run of research() ends, done or with an error, and the axios.get
\* calls of the run are 3 times the number of generated queries at most.
C29_RunsEndWithBoundedFetches ==
    /\ <>(pc \in {"done", "error"})
    /\ [](fout.kind = "fetches" => fout.count <= 3 * Len(generatedQueries))

C29_Witness ==
    /\ pc \in {"done", "error"}
    /\ fout.kind = "fetches"
    /\ Len(generatedQueries) = MaxQueries
    /\ fout.count = 3 * Len(generatedQueries)

====
